---- MODULE Spec2Model ----
(***************************************************************************)
(* Model of craft-agents-oss, packages/shared:                             *)
(*   - auth/resolve-auth-env.ts   : resolveAuthEnv                         *)
(*   - hooks-simple/schemas.ts    : HooksConfigSchema (validation + the    *)
(*                                  deprecated-event remap), and the       *)
(*                                  session title generator                *)
(*   - hooks-simple/hook-system.ts: HookSystem (matcher index and session  *)
(*                                  metadata store), known through its     *)
(*                                  tests and the specification            *)
(* Four specifications share the module, one per component; each leaves    *)
(* the variables of the other components at their idle values.             *)
(***************************************************************************)
EXTENDS Integers, Sequences, FiniteSets, TLC

VARIABLES
    \* ---- resolveAuthEnv ----
    authPc,        \* "call" before resolveAuthEnv ran on authInput, "returned" after
    authInput,     \* AuthEnvInput
    authResult,    \* AuthEnvResult
    \* ---- HookSystem: hooks.json, HooksConfigSchema, matcher index ----
    hooksFile,     \* content of hooks.json (raw configuration) or NoFile
    systemUp,      \* TRUE while a HookSystem is constructed and not disposed
    hooksConfig,   \* the HooksConfiguration the system holds (matcher index)
    warnings,      \* console.warn calls of the last load, in order
    issues,        \* validation issues of the last load
    \* ---- HookSystem: session metadata store and event bus ----
    sessions,      \* sessionId -> stored SessionMetadata or NoSession
    emitted,       \* eventBus.emit calls of the last operation, in order
    lastCall,      \* the last store operation, its arguments and its outcome
    \* ---- title generator ----
    titlePc,       \* "call" | "returned"
    titleCall,     \* the arguments and the collaborators' behaviour of the call
    titleResult,   \* the resolved value of the returned promise
    titleEffects   \* which collaborators the call invoked, whether it rejected

authVars    == <<authPc, authInput, authResult>>
hooksVars   == <<hooksFile, systemUp, hooksConfig, warnings, issues>>
sessionVars == <<sessions, emitted, lastCall>>
titleVars   == <<titlePc, titleCall, titleResult, titleEffects>>
vars        == <<authVars, hooksVars, sessionVars, titleVars>>

(***************************************************************************)
(* JavaScript values.  null and undefined are sentinel strings that no     *)
(* pool of program strings contains; a string is truthy unless it is       *)
(* null, undefined or the empty string.                                    *)
(***************************************************************************)
null      == "<null>"
undefined == "<undefined>"

Truthy(s) == s \notin {null, undefined, ""}

\* a || b on strings
OrElse(a, b) == IF Truthy(a) THEN a ELSE b

\* a ?? b
Coalesce(a, b) == IF a \in {null, undefined} THEN b ELSE a

EmptyObject == [k \in {} |-> ""]

Range(s) == {s[i] : i \in DOMAIN s}

(***************************************************************************)
(* auth/resolve-auth-env.ts                                                *)
(***************************************************************************)
ANTHROPIC_BASE_URL      == "ANTHROPIC_BASE_URL"
ANTHROPIC_API_KEY       == "ANTHROPIC_API_KEY"
CLAUDE_CODE_OAUTH_TOKEN == "CLAUDE_CODE_OAUTH_TOKEN"

EnvVars == {ANTHROPIC_BASE_URL, ANTHROPIC_API_KEY, CLAUDE_CODE_OAUTH_TOKEN}

\* AuthType | null, as the tests use it
AuthTypes == {null, "api_key", "oauth_token", "bedrock"}

ApiKeys      == {null, "", "sk-test-key"}
OAuthTokens  == {null, "", "oauth-token-123"}
BaseUrls     == {null, "", "https://openrouter.ai/api"}

AuthEnvInput ==
    [ billing : [ type : AuthTypes, hasCredentials : BOOLEAN,
                  apiKey : ApiKeys, claudeOAuthToken : OAuthTokens ],
      customBaseUrl : BaseUrls ]

AuthEnvResult(set, delete, error) ==
    [ set |-> set, delete |-> delete, error |-> error ]

\* Mutant: the OAuth rule is tested before the custom-base-URL rule.
resolveAuthEnv_oauthFirst(input) ==
    IF input.billing.type = "bedrock"
    THEN AuthEnvResult(EmptyObject, <<>>, undefined)
    ELSE IF input.billing.type = "oauth_token" /\ Truthy(input.billing.claudeOAuthToken)
    THEN AuthEnvResult(CLAUDE_CODE_OAUTH_TOKEN :> input.billing.claudeOAuthToken,
                       <<ANTHROPIC_API_KEY, ANTHROPIC_BASE_URL>>, undefined)
    ELSE IF Truthy(input.customBaseUrl)
    THEN AuthEnvResult(
             (ANTHROPIC_BASE_URL :> input.customBaseUrl)
                 @@ (ANTHROPIC_API_KEY :> OrElse(input.billing.apiKey, "not-needed")),
             <<CLAUDE_CODE_OAUTH_TOKEN>>, undefined)
    ELSE IF Truthy(input.billing.apiKey)
    THEN AuthEnvResult(ANTHROPIC_API_KEY :> input.billing.apiKey,
                       <<CLAUDE_CODE_OAUTH_TOKEN, ANTHROPIC_BASE_URL>>, undefined)
    ELSE AuthEnvResult(EmptyObject, <<>>, "No authentication configured")

\* Mutant: the custom-endpoint rule clears the API key as the OAuth rule does.
resolveAuthEnv_deletesKey(input) ==
    IF input.billing.type = "bedrock"
    THEN AuthEnvResult(EmptyObject, <<>>, undefined)
    ELSE IF Truthy(input.customBaseUrl)
    THEN AuthEnvResult(
             (ANTHROPIC_BASE_URL :> input.customBaseUrl)
                 @@ (ANTHROPIC_API_KEY :> OrElse(input.billing.apiKey, "not-needed")),
             <<CLAUDE_CODE_OAUTH_TOKEN, ANTHROPIC_API_KEY>>, undefined)
    ELSE IF input.billing.type = "oauth_token" /\ Truthy(input.billing.claudeOAuthToken)
    THEN AuthEnvResult(CLAUDE_CODE_OAUTH_TOKEN :> input.billing.claudeOAuthToken,
                       <<ANTHROPIC_API_KEY, ANTHROPIC_BASE_URL>>, undefined)
    ELSE IF Truthy(input.billing.apiKey)
    THEN AuthEnvResult(ANTHROPIC_API_KEY :> input.billing.apiKey,
                       <<CLAUDE_CODE_OAUTH_TOKEN, ANTHROPIC_BASE_URL>>, undefined)
    ELSE AuthEnvResult(EmptyObject, <<>>, "No authentication configured")

\* Mutant: the placeholder replaces only a null key (?? in place of ||).
resolveAuthEnv_nullish(input) ==
    IF input.billing.type = "bedrock"
    THEN AuthEnvResult(EmptyObject, <<>>, undefined)
    ELSE IF Truthy(input.customBaseUrl)
    THEN AuthEnvResult(
             (ANTHROPIC_BASE_URL :> input.customBaseUrl)
                 @@ (ANTHROPIC_API_KEY :> Coalesce(input.billing.apiKey, "not-needed")),
             <<CLAUDE_CODE_OAUTH_TOKEN>>, undefined)
    ELSE IF input.billing.type = "oauth_token" /\ Truthy(input.billing.claudeOAuthToken)
    THEN AuthEnvResult(CLAUDE_CODE_OAUTH_TOKEN :> input.billing.claudeOAuthToken,
                       <<ANTHROPIC_API_KEY, ANTHROPIC_BASE_URL>>, undefined)
    ELSE IF Truthy(input.billing.apiKey)
    THEN AuthEnvResult(ANTHROPIC_API_KEY :> input.billing.apiKey,
                       <<CLAUDE_CODE_OAUTH_TOKEN, ANTHROPIC_BASE_URL>>, undefined)
    ELSE AuthEnvResult(EmptyObject, <<>>, "No authentication configured")

resolveAuthEnv(input) ==
    IF input.billing.type = "bedrock"
    THEN AuthEnvResult(EmptyObject, <<>>, undefined)
    ELSE IF Truthy(input.customBaseUrl)
    THEN AuthEnvResult(
             (ANTHROPIC_BASE_URL :> input.customBaseUrl)
                 @@ (ANTHROPIC_API_KEY :> OrElse(input.billing.apiKey, "not-needed")),
             <<CLAUDE_CODE_OAUTH_TOKEN>>, undefined)
    ELSE IF input.billing.type = "oauth_token" /\ Truthy(input.billing.claudeOAuthToken)
    THEN AuthEnvResult(CLAUDE_CODE_OAUTH_TOKEN :> input.billing.claudeOAuthToken,
                       <<ANTHROPIC_API_KEY, ANTHROPIC_BASE_URL>>, undefined)
    ELSE IF Truthy(input.billing.apiKey)
    THEN AuthEnvResult(ANTHROPIC_API_KEY :> input.billing.apiKey,
                       <<CLAUDE_CODE_OAUTH_TOKEN, ANTHROPIC_BASE_URL>>, undefined)
    ELSE AuthEnvResult(EmptyObject, <<>>, "No authentication configured")

NothingConfigured ==
    [ billing |-> [ type |-> null, hasCredentials |-> FALSE,
                    apiKey |-> null, claudeOAuthToken |-> null ],
      customBaseUrl |-> null ]

IdleAuth ==
    /\ authPc = "call"
    /\ authInput = NothingConfigured
    /\ authResult = AuthEnvResult(EmptyObject, <<>>, undefined)

InitAuth ==
    /\ authPc = "call"
    /\ authInput \in AuthEnvInput
    /\ authResult = AuthEnvResult(EmptyObject, <<>>, undefined)

\* The caller applies resolveAuthEnv to the current auth state.
ResolveAuthEnv ==
    /\ authPc = "call"
    /\ authPc' = "returned"
    /\ authResult' = resolveAuthEnv(authInput)
    /\ UNCHANGED <<authInput, hooksVars, sessionVars, titleVars>>

(***************************************************************************)
(* hooks-simple/schemas.ts: the Zod schemas.                               *)
(* An optional number is <<>> when absent and <<n>> when present; an       *)
(* optional string is undefined when absent.  A raw object of hooks.json   *)
(* (and the Record the transform builds) is the sequence of its            *)
(* [event, matchers] entries in insertion order, keys pairwise distinct.   *)
(***************************************************************************)
ZodIssue(path, message) == [path |-> path, message |-> message]

RECURSIVE Flatten(_)
Flatten(ss) == IF ss = <<>> THEN <<>> ELSE Head(ss) \o Flatten(Tail(ss))

\* z.string().min(1, message): the issues of value v at path
NonEmptyString(v, path, message) ==
    IF v = undefined THEN <<ZodIssue(path, "Required")>>
    ELSE IF v = "" THEN <<ZodIssue(path, message)>>
    ELSE <<>>

\* z.number().positive().optional()
PositiveOptional(v, path) ==
    IF v # <<>> /\ ~(v[1] > 0)
    THEN <<ZodIssue(path, "Number must be greater than 0")>>
    ELSE <<>>

CommandHookSchema(h, path) ==
    NonEmptyString(h.command, Append(path, "command"), "Command cannot be empty")
        \o PositiveOptional(h.timeout, Append(path, "timeout"))

PromptHookSchema(h, path) ==
    NonEmptyString(h.prompt, Append(path, "prompt"), "Prompt cannot be empty")

\* z.discriminatedUnion('type', [...])
HookDefinitionSchema(h, path) ==
    IF h.type = "command" THEN CommandHookSchema(h, path)
    ELSE IF h.type = "prompt" THEN PromptHookSchema(h, path)
    ELSE <<ZodIssue(Append(path, "type"), "Invalid discriminator value")>>

PermissionModes == {"safe", "ask", "allow-all"}

HookMatcherSchema(m, path) ==
    (IF m.permissionMode \in PermissionModes \cup {undefined} THEN <<>>
     ELSE <<ZodIssue(Append(path, "permissionMode"), "Invalid enum value")>>)
    \o (IF Len(m.hooks) >= 1 THEN <<>>
        ELSE <<ZodIssue(Append(path, "hooks"), "At least one hook required")>>)
    \o Flatten([i \in DOMAIN m.hooks |->
                  HookDefinitionSchema(m.hooks[i],
                                       path \o <<"hooks", ToString(i - 1)>>)])

\* z.record(z.string(), z.array(HookMatcherSchema)): the issues of the raw hooks
HooksRecordSchema(hooks) ==
    Flatten([e \in DOMAIN hooks |->
        Flatten([j \in DOMAIN hooks[e].matchers |->
            HookMatcherSchema(hooks[e].matchers[j],
                              <<"hooks", hooks[e].event, ToString(j - 1)>>)])])

\* types.ts: the event names hooks may react to
APP_EVENTS   == {"LabelAdd", "PermissionModeChange", "StatusStateChange"}
AGENT_EVENTS == {"PreToolUse", "SessionStart"}

VALID_EVENTS == APP_EVENTS \cup AGENT_EVENTS

\* The own property of the DEPRECATED_EVENTS object literal.
DEPRECATED_EVENTS == [e \in {"TodoStateChange"} |-> "StatusStateChange"]

\* What a plain object literal inherits from Object.prototype, each member
\* as the string it becomes when used as a property key or in a template.
ObjectPrototype ==
    [ n \in {"constructor", "toString", "valueOf", "hasOwnProperty"} |->
        CASE n = "constructor"    -> "function Object() { [native code] }"
          [] n = "toString"       -> "function toString() { [native code] }"
          [] n = "valueOf"        -> "function valueOf() { [native code] }"
          [] n = "hasOwnProperty" -> "function hasOwnProperty() { [native code] }" ]

\* DEPRECATED_EVENTS[event]: own properties first, then the prototype chain.
DeprecatedEventsGet(event) ==
    IF event \in DOMAIN DEPRECATED_EVENTS THEN DEPRECATED_EVENTS[event]
    ELSE IF event \in DOMAIN ObjectPrototype THEN ObjectPrototype[event]
    ELSE undefined

HasKey(obj, key) == \E i \in DOMAIN obj : obj[i].event = key

KeyIndex(obj, key) == CHOOSE i \in DOMAIN obj : obj[i].event = key

\* obj[key] ?? []
MatchersOf(obj, key) ==
    IF HasKey(obj, key) THEN obj[KeyIndex(obj, key)].matchers ELSE <<>>

\* obj[key] = matchers: an existing key keeps its position, a new key is appended
SetMatchers(obj, key, matchers) ==
    IF HasKey(obj, key)
    THEN [obj EXCEPT ![KeyIndex(obj, key)].matchers = matchers]
    ELSE Append(obj, [event |-> key, matchers |-> matchers])

DeprecationWarning(event, renamedTo) ==
    <<"[hooks] \"", event, "\" is deprecated, use \"", renamedTo, "\" instead">>

UnknownEventsWarning(invalidEvents) ==
    <<"[hooks] Unknown event types ignored: ">> \o invalidEvents

\* Mutant: a deprecated key overwrites what was accumulated for the new name.
RemapEntry_overwrite(acc, entry) ==
    LET event     == entry.event
        matchers  == entry.matchers
        renamedTo == DeprecatedEventsGet(event)
    IN  IF Truthy(renamedTo)
        THEN [acc EXCEPT
                !.warned = Append(@, DeprecationWarning(event, renamedTo)),
                !.validHooks = SetMatchers(@, renamedTo, matchers)]
        ELSE IF event \in VALID_EVENTS
        THEN [acc EXCEPT
                !.validHooks = SetMatchers(@, event, MatchersOf(@, event) \o matchers)]
        ELSE [acc EXCEPT !.invalidEvents = Append(@, event)]

\* Mutant: a deprecated key is dropped like an unknown one (no compat layer).
RemapEntry_noCompat(acc, entry) ==
    LET event     == entry.event
        matchers  == entry.matchers
    IN  IF event \in VALID_EVENTS
        THEN [acc EXCEPT
                !.validHooks = SetMatchers(@, event, MatchersOf(@, event) \o matchers)]
        ELSE [acc EXCEPT !.invalidEvents = Append(@, event)]

\* Mutant: legacy matchers are put in front of the accumulated list.
RemapEntry_prepend(acc, entry) ==
    LET event     == entry.event
        matchers  == entry.matchers
        renamedTo == DeprecatedEventsGet(event)
    IN  IF Truthy(renamedTo)
        THEN [acc EXCEPT
                !.warned = Append(@, DeprecationWarning(event, renamedTo)),
                !.validHooks = SetMatchers(@, renamedTo,
                                           matchers \o MatchersOf(@, renamedTo))]
        ELSE IF event \in VALID_EVENTS
        THEN [acc EXCEPT
                !.validHooks = SetMatchers(@, event, MatchersOf(@, event) \o matchers)]
        ELSE [acc EXCEPT !.invalidEvents = Append(@, event)]

\* One iteration of the for-of loop over Object.entries(data.hooks).
RemapEntry(acc, entry) ==
    LET event     == entry.event
        matchers  == entry.matchers
        renamedTo == DeprecatedEventsGet(event)
    IN  IF Truthy(renamedTo)
        THEN [acc EXCEPT
                !.warned = Append(@, DeprecationWarning(event, renamedTo)),
                !.validHooks = SetMatchers(@, renamedTo,
                                           MatchersOf(@, renamedTo) \o matchers)]
        ELSE IF event \in VALID_EVENTS
        THEN [acc EXCEPT
                !.validHooks = SetMatchers(@, event, MatchersOf(@, event) \o matchers)]
        ELSE [acc EXCEPT !.invalidEvents = Append(@, event)]

RECURSIVE RemapLoop(_, _, _)
RemapLoop(acc, hooks, i) ==
    IF i > Len(hooks) THEN acc
    ELSE RemapLoop(RemapEntry(acc, hooks[i]), hooks, i + 1)

\* The .transform callback of HooksConfigSchema: the value it returns and the
\* console.warn calls it makes.
Transform(data) ==
    LET acc == RemapLoop([validHooks |-> <<>>, invalidEvents |-> <<>>, warned |-> <<>>],
                         data.hooks, 1)
    IN  [ value    |-> [version |-> data.version, hooks |-> acc.validHooks],
          warnings |-> IF Len(acc.invalidEvents) > 0
                       THEN Append(acc.warned, UnknownEventsWarning(acc.invalidEvents))
                       ELSE acc.warned ]

\* Mutant: the transform runs on input that failed validation (partial success).
HooksConfigSchema_partial(raw) ==
    LET errs == HooksRecordSchema(raw.hooks)
    IN  [success |-> errs = <<>>, data |-> Transform(raw).value,
         warnings |-> Transform(raw).warnings, error |-> errs]

\* HooksConfigSchema.safeParse(raw): validation, then the transform.
HooksConfigSchema(raw) ==
    LET errs == HooksRecordSchema(raw.hooks)
    IN  IF errs = <<>>
        THEN [success |-> TRUE, data |-> Transform(raw).value,
              warnings |-> Transform(raw).warnings, error |-> <<>>]
        ELSE [success |-> FALSE, data |-> [version |-> <<>>, hooks |-> <<>>],
              warnings |-> <<>>, error |-> errs]

zodErrorToIssues(error, file) ==
    [i \in DOMAIN error |->
        [ file     |-> file,
          path     |-> IF error[i].path = <<>> THEN <<"root">> ELSE error[i].path,
          message  |-> error[i].message,
          severity |-> "error" ]]

(***************************************************************************)
(* hooks.json contents the model loads.                                    *)
(***************************************************************************)
MaxKeys     == 2    \* top-level event keys in one hooks.json
MaxMatchers == 2    \* matchers under one key

CommandHook(command, timeout) ==
    [type |-> "command", command |-> command, prompt |-> undefined, timeout |-> timeout]

PromptHook(prompt) ==
    [type |-> "prompt", command |-> undefined, prompt |-> prompt, timeout |-> <<>>]

Matcher(matcher, permissionMode, hooks) ==
    [matcher |-> matcher, permissionMode |-> permissionMode, hooks |-> hooks]

mDone     == Matcher("done", undefined, <<CommandHook("echo done", <<>>)>>)
mProgress == Matcher("in_progress", "safe",
                     <<PromptHook("summarise"), CommandHook("echo new", <<30>>)>>)

WellFormedMatchers == {mDone, mProgress}

MalformedMatchers ==
    { Matcher("done", undefined, <<>>),
      Matcher("done", undefined, <<[CommandHook("echo done", <<>>) EXCEPT !.type = "script"]>>),
      Matcher("done", undefined, <<CommandHook("", <<>>)>>),
      Matcher("done", undefined, <<PromptHook("")>>),
      Matcher("done", undefined, <<CommandHook("echo done", <<0>>)>>),
      Matcher("done", undefined, <<CommandHook("echo done", <<-5>>)>>),
      Matcher("done", undefined, <<CommandHook("echo done", <<>>), PromptHook(undefined)>>) }

EventKeys == {"TodoStateChange", "StatusStateChange", "LabelAdd", "Bogus", "constructor"}

SeqsUpTo(S, n) == UNION {[1..k -> S] : k \in 0..n}

KeyLists == {ks \in SeqsUpTo(EventKeys, MaxKeys) :
                \A i, j \in DOMAIN ks : i # j => ks[i] # ks[j]}

RawConfig(version, ks, ms) ==
    [version |-> version,
     hooks   |-> [i \in DOMAIN ks |-> [event |-> ks[i], matchers |-> ms[i]]]]

\* hooks.json files with one malformed matcher, alone or next to a well-formed
\* one, under one key, alone or next to a well-formed key.
MalformedConfigs ==
    LET lists == UNION { {<<bad>>, <<mDone, bad>>, <<bad, mProgress>>} :
                         bad \in MalformedMatchers }
    IN  UNION { { RawConfig(<<>>, <<k>>, <<l>>) : k \in EventKeys }
                \cup { RawConfig(<<>>, <<k, "StatusStateChange">>, <<l, <<mDone>>>>) :
                         k \in EventKeys \ {"StatusStateChange"} }
                \cup { RawConfig(<<>>, <<"TodoStateChange", k>>, <<<<mDone>>, l>>) :
                         k \in EventKeys \ {"TodoStateChange"} } :
                l \in lists }

(***************************************************************************)
(* hooks-simple/hook-system.ts: construction, the matcher index, disposal. *)
(***************************************************************************)
EmptyConfiguration == [version |-> <<>>, hooks |-> <<>>]

IdleHooks ==
    /\ hooksFile = <<>>
    /\ systemUp = FALSE
    /\ hooksConfig = EmptyConfiguration
    /\ warnings = <<>>
    /\ issues = <<>>

\* The test helper writeHooksJson: hooks.json is written before construction.
\* Either any file of at most MaxKeys keys with at most MaxMatchers well-formed
\* matchers each (version 1), or one of the malformed files (no version).
WriteHooksJson ==
    /\ ~systemUp
    /\ hooksFile = <<>>
    /\ \/ \E ks \in KeyLists :
            \E ms \in [DOMAIN ks -> SeqsUpTo(WellFormedMatchers, MaxMatchers)] :
                hooksFile' = <<RawConfig(<<1>>, ks, ms)>>
       \/ \E raw \in MalformedConfigs : hooksFile' = <<raw>>
    /\ UNCHANGED <<systemUp, hooksConfig, warnings, issues,
                   authVars, sessionVars, titleVars>>

\* new HookSystem(...): loads hooks.json if present through HooksConfigSchema
\* and builds the matcher index; a missing file is an empty configuration, a
\* file that fails validation is reported and leaves no hooks.
CreateSystem ==
    /\ ~systemUp
    /\ systemUp' = TRUE
    /\ IF hooksFile = <<>>
       THEN /\ hooksConfig' = EmptyConfiguration
            /\ warnings' = <<>>
            /\ issues' = <<>>
       ELSE LET parsed == HooksConfigSchema(hooksFile[1])
            IN  /\ hooksConfig' = parsed.data
                /\ warnings' = parsed.warnings
                /\ issues' = zodErrorToIssues(parsed.error, "hooks.json")
    /\ UNCHANGED <<hooksFile, authVars, sessionVars, titleVars>>

\* getMatchersForEvent(event): the matchers of the index, possibly none
getMatchersForEvent(event) == MatchersOf(hooksConfig.hooks, event)

(***************************************************************************)
(* hooks-simple/hook-system.ts: the session metadata store and the event   *)
(* bus.  A stored session is <<metadata>>, an unregistered one <<>>; a     *)
(* field that is not set holds undefined.  A partial update is a function  *)
(* from the fields it names to their new values.                           *)
(***************************************************************************)
SessionIds == {"s1", "s2"}

\* the fields in the order an update processes them
MetadataFields == <<"permissionMode", "todoState", "name">>

FieldValues ==
    [ f \in Range(MetadataFields) |->
        CASE f = "permissionMode" -> {"ask"}
          [] f = "todoState"      -> {"backlog", "todo"}
          [] f = "name"           -> {"Fix login"} ]

\* the static field -> event mapping; a field outside it produces no event
FieldEvent ==
    [ f \in {"permissionMode", "todoState"} |->
        IF f = "todoState" THEN "StatusStateChange" ELSE "PermissionModeChange" ]

PartialMetadata ==
    UNION { { p \in [fs -> UNION {FieldValues[f] : f \in fs}] :
                \A f \in fs : p[f] \in FieldValues[f] } :
            fs \in SUBSET Range(MetadataFields) }

Unset == [f \in Range(MetadataFields) |-> undefined]

\* stored state with the fields of the partial update written over it
MergeMetadata(stored, partial) ==
    [f \in Range(MetadataFields) |->
        IF f \in DOMAIN partial THEN partial[f] ELSE stored[f]]

Emission(event, sessionId, oldState, newState) ==
    [event |-> event, sessionId |-> sessionId,
     oldState |-> oldState, newState |-> newState]

\* Mutant: every mapped field named by the update fires, changed or not.
ChangeEvents_noDiff(sessionId, stored, partial) ==
    Flatten([i \in DOMAIN MetadataFields |->
        LET f == MetadataFields[i]
        IN  IF f \in DOMAIN partial /\ f \in DOMAIN FieldEvent
            THEN <<Emission(FieldEvent[f], sessionId, stored[f], partial[f])>>
            ELSE <<>>])

\* Mutant: the payload is built after the merge, so oldState is the new value.
ChangeEvents_staleOld(sessionId, stored, partial) ==
    Flatten([i \in DOMAIN MetadataFields |->
        LET f == MetadataFields[i]
        IN  IF f \in DOMAIN partial /\ partial[f] # stored[f] /\ f \in DOMAIN FieldEvent
            THEN <<Emission(FieldEvent[f], sessionId,
                            MergeMetadata(stored, partial)[f], partial[f])>>
            ELSE <<>>])

\* The diff: one emission for each mapped field whose value changes.
ChangeEvents(sessionId, stored, partial) ==
    Flatten([i \in DOMAIN MetadataFields |->
        LET f == MetadataFields[i]
        IN  IF f \in DOMAIN partial /\ partial[f] # stored[f] /\ f \in DOMAIN FieldEvent
            THEN <<Emission(FieldEvent[f], sessionId, stored[f], partial[f])>>
            ELSE <<>>])

NoCall ==
    [op |-> "none", sessionId |-> "", arg |-> <<>>, before |-> <<>>,
     returned |-> <<>>, failed |-> FALSE]

IdleSessions ==
    /\ sessions = [s \in SessionIds |-> <<>>]
    /\ emitted = <<>>
    /\ lastCall = NoCall

\* setInitialSessionMetadata(sessionId, metadata): registers the starting state
\* and emits nothing.  On a session that is already registered the behaviour
\* is left open (overwrite, merge or reject): each is a possible outcome.
setInitialSessionMetadata ==
    /\ systemUp
    /\ \E s \in SessionIds, md \in PartialMetadata :
        /\ \/ sessions' = [sessions EXCEPT ![s] = <<MergeMetadata(Unset, md)>>]
           \/ /\ sessions[s] # <<>>
              /\ sessions' = [sessions EXCEPT ![s] = <<MergeMetadata(sessions[s][1], md)>>]
           \/ /\ sessions[s] # <<>>
              /\ sessions' = sessions
        /\ emitted' = <<>>
        /\ lastCall' = [op |-> "setInitial", sessionId |-> s, arg |-> <<md>>,
                        before |-> sessions[s], returned |-> <<>>, failed |-> FALSE]
    /\ UNCHANGED <<hooksVars, authVars, titleVars>>

\* updateSessionMetadata(sessionId, partial): diffs the update against the
\* stored state, stores the merge, emits one event per changed mapped field
\* and returns the names of the events emitted.  An unregistered session is
\* a "session not found" failure and nothing is created.
updateSessionMetadata ==
    /\ systemUp
    /\ \E s \in SessionIds, partial \in PartialMetadata :
        IF sessions[s] = <<>>
        THEN /\ sessions' = sessions
             /\ emitted' = <<>>
             /\ lastCall' = [op |-> "update", sessionId |-> s, arg |-> <<partial>>,
                             before |-> <<>>, returned |-> <<>>, failed |-> TRUE]
        ELSE LET events == ChangeEvents(s, sessions[s][1], partial)
             IN  /\ sessions' = [sessions EXCEPT
                                   ![s] = <<MergeMetadata(sessions[s][1], partial)>>]
                 /\ emitted' = events
                 /\ lastCall' = [op |-> "update", sessionId |-> s, arg |-> <<partial>>,
                                 before |-> sessions[s],
                                 returned |-> [i \in DOMAIN events |-> events[i].event],
                                 failed |-> FALSE]
    /\ UNCHANGED <<hooksVars, authVars, titleVars>>

\* dispose(), and the test's removal of its workspace directory
Dispose ==
    /\ systemUp
    /\ systemUp' = FALSE
    /\ hooksFile' = <<>>
    /\ hooksConfig' = EmptyConfiguration
    /\ warnings' = <<>>
    /\ issues' = <<>>
    /\ sessions' = [s \in SessionIds |-> <<>>]
    /\ emitted' = <<>>
    /\ lastCall' = NoCall
    /\ UNCHANGED <<authVars, titleVars>>

(***************************************************************************)
(* hooks-simple/schemas.ts, second half: the session title generator.      *)
(* A text is a sequence of runs [ch, n]: n >= 1 copies of the character    *)
(* ch, where " " and "\n" are white space and "x" is any other character.  *)
(* A nullable text is <<>> for null/undefined and <<text>> otherwise.      *)
(***************************************************************************)
Run(ch, n) == [ch |-> ch, n |-> n]

IsSpace(ch) == ch \in {" ", "\n"}

RECURSIVE StrLen(_)
StrLen(t) == IF t = <<>> THEN 0 ELSE Head(t).n + StrLen(Tail(t))

RECURSIVE TrimStart(_)
TrimStart(t) ==
    IF t = <<>> THEN <<>>
    ELSE IF IsSpace(Head(t).ch) THEN TrimStart(Tail(t))
    ELSE t

RECURSIVE TrimEnd(_)
TrimEnd(t) ==
    IF t = <<>> THEN <<>>
    ELSE IF IsSpace(t[Len(t)].ch) THEN TrimEnd(SubSeq(t, 1, Len(t) - 1))
    ELSE t

\* String.prototype.trim
Trim(t) == TrimEnd(TrimStart(t))

TitleLimit == 100

\* Mutant: a title of exactly 100 characters is accepted.
AcceptTitle_inclusive(text) ==
    LET trimmed == Trim(text)
    IN  IF StrLen(trimmed) > 0 /\ StrLen(trimmed) <= TitleLimit
        THEN <<trimmed>> ELSE <<>>

\* const trimmed = text.trim(); the validated title or null
AcceptTitle(text) ==
    LET trimmed == Trim(text)
    IN  IF StrLen(trimmed) > 0 /\ StrLen(trimmed) < TitleLimit
        THEN <<trimmed>> ELSE <<>>

\* What a function body did: the value it returned, or that it threw, and the
\* collaborators it invoked.
Returned(value, sdk, http) ==
    [threw |-> FALSE, value |-> value, sdkCalled |-> sdk, fetchCalled |-> http]

Threw(sdk, http) ==
    [threw |-> TRUE, value |-> <<>>, sdkCalled |-> sdk, fetchCalled |-> http]

\* try { body } catch (error) { ...; return null }
TryCatchNull(body) == IF body.threw THEN [body EXCEPT !.threw = FALSE, !.value = <<>>] ELSE body

\* The body of the try block of generateTitleWithOpenAI, after fetch was called
\* and behaved as http says.
OpenAIResponse(http) ==
    IF http.kind = "network-error" THEN Threw(FALSE, TRUE)
    ELSE IF http.kind = "http-error" THEN Returned(<<>>, FALSE, TRUE)
    ELSE IF http.kind = "bad-json" THEN Threw(FALSE, TRUE)
    ELSE IF http.content # <<>> /\ StrLen(http.content[1]) > 0
    THEN Returned(AcceptTitle(http.content[1]), FALSE, TRUE)
    ELSE Returned(<<>>, FALSE, TRUE)

generateTitleWithOpenAI(credentials, http) ==
    LET authToken == OrElse(credentials.apiKey, credentials.accessToken)
    IN  IF ~Truthy(authToken) THEN Returned(<<>>, FALSE, FALSE)
        ELSE TryCatchNull(OpenAIResponse(http))

\* title += block.text over the text blocks of the assistant messages
CollectText(messages) ==
    Flatten([i \in DOMAIN messages |->
        IF messages[i].type = "assistant"
        THEN Flatten([j \in DOMAIN messages[i].content |->
                 IF messages[i].content[j].type = "text"
                 THEN messages[i].content[j].text ELSE <<>>])
        ELSE <<>>])

\* The Claude SDK branch: query() yields sdk.messages and then ends or throws.
ClaudeTitle(sdk) ==
    IF sdk.throws THEN Threw(TRUE, FALSE)
    ELSE Returned(AcceptTitle(CollectText(sdk.messages)), TRUE, FALSE)

\* The body both exported functions share once the prompt is built: the route
\* to the provider and the provider's branch.
TitleBody(options, sdk, http) ==
    LET provider == Coalesce(options.provider, "anthropic")
    IN  IF provider = "openai" /\ options.credentials # <<>>
        THEN generateTitleWithOpenAI(options.credentials[1], http)
        ELSE ClaudeTitle(sdk)

generateSessionTitle(options, sdk, http) == TryCatchNull(TitleBody(options, sdk, http))

regenerateSessionTitle(options, sdk, http) == TryCatchNull(TitleBody(options, sdk, http))

(***************************************************************************)
(* The calls of the title generator the model makes.                       *)
(***************************************************************************)
MaxMessages == 2    \* messages one query() yields

\* generated texts: optional white space around a body that is empty, short,
\* or just under, at and over the limit, with and without inner white space
TextBodies ==
    { <<>>, <<Run("x", 1)>>, <<Run("x", 99)>>, <<Run("x", 100)>>,
      <<Run("x", 50), Run(" ", 1), Run("x", 48)>>,
      <<Run("x", 50), Run(" ", 1), Run("x", 49)>>,
      <<Run("x", 300)>> }

Texts ==
    { lead \o body \o trail :
        lead \in {<<>>, <<Run(" ", 2)>>},
        body \in TextBodies,
        trail \in {<<>>, <<Run("\n", 1)>>, <<Run(" ", 1), Run("\n", 1)>>} }

\* text blocks of a streamed answer: pieces that add up to titles around the limit
TextParts ==
    { <<Run(" ", 1)>>, <<Run("x", 1)>>, <<Run("x", 98)>>, <<Run("x", 99), Run("\n", 1)>> }

TextBlock(text) == [type |-> "text", text |-> text]
ToolUseBlock    == [type |-> "tool_use", text |-> <<>>]

SdkMessages ==
    { [type |-> "system", content |-> <<>>],
      [type |-> "assistant", content |-> <<ToolUseBlock>>] }
    \cup { [type |-> "assistant", content |-> <<TextBlock(t)>>] : t \in TextParts }
    \cup { [type |-> "assistant", content |-> <<TextBlock(t), ToolUseBlock, TextBlock(t)>>] :
             t \in {<<Run("x", 1)>>} }

SdkBehaviours ==
    [messages : SeqsUpTo(SdkMessages, MaxMessages), throws : BOOLEAN]

HttpBehaviours ==
    { [kind |-> k, content |-> <<>>] : k \in {"network-error", "http-error", "bad-json", "ok"} }
    \cup { [kind |-> "ok", content |-> <<t>>] : t \in Texts }

OpenAICredentials ==
    [apiKey : {undefined, "", "sk-openai"}, accessToken : {undefined, "chatgpt-token"}]

TitleGeneratorOptions ==
    [ provider    : {undefined, "anthropic", "openai"},
      credentials : {<<>>} \cup {<<c>> : c \in OpenAICredentials} ]

NoTitleCall ==
    [fn |-> "none", options |-> [provider |-> undefined, credentials |-> <<>>],
     sdk |-> <<>>, http |-> <<>>]

IdleTitle ==
    /\ titlePc = "idle"
    /\ titleCall = NoTitleCall
    /\ titleResult = <<>>
    /\ titleEffects = [rejected |-> FALSE, sdkCalled |-> FALSE, fetchCalled |-> FALSE]

\* One call and its settlement.  The behaviour of a collaborator is recorded
\* only if the call invoked it: the other one is never observed.
TitleCallReturns(fn, options, sdk, http, out) ==
    /\ titlePc' = "returned"
    /\ titleCall' = [fn |-> fn, options |-> options,
                     sdk  |-> IF out.sdkCalled THEN <<sdk>> ELSE <<>>,
                     http |-> IF out.fetchCalled THEN <<http>> ELSE <<>>]
    /\ titleResult' = out.value
    /\ titleEffects' = [rejected |-> out.threw, sdkCalled |-> out.sdkCalled,
                        fetchCalled |-> out.fetchCalled]
    /\ UNCHANGED <<authVars, hooksVars, sessionVars>>

GenerateSessionTitle ==
    /\ titlePc = "idle"
    /\ \E options \in TitleGeneratorOptions, sdk \in SdkBehaviours, http \in HttpBehaviours :
         TitleCallReturns("generateSessionTitle", options, sdk, http,
                         generateSessionTitle(options, sdk, http))

RegenerateSessionTitle ==
    /\ titlePc = "idle"
    /\ \E options \in TitleGeneratorOptions, sdk \in SdkBehaviours, http \in HttpBehaviours :
         TitleCallReturns("regenerateSessionTitle", options, sdk, http,
                         regenerateSessionTitle(options, sdk, http))

(***************************************************************************)
(* Specifications.                                                         *)
(***************************************************************************)
Init == IdleAuth /\ IdleHooks /\ IdleSessions /\ IdleTitle

\* The hook system loading hooks.json files.
NextHooks == WriteHooksJson \/ CreateSystem \/ Dispose

SpecHooks == Init /\ [][NextHooks]_vars

\* The hook system's session metadata store.
NextSessions ==
    CreateSystem \/ setInitialSessionMetadata \/ updateSessionMetadata \/ Dispose

SpecSessions == Init /\ [][NextSessions]_vars

\* resolveAuthEnv over every auth state.
InitAuthSpec == InitAuth /\ IdleHooks /\ IdleSessions /\ IdleTitle

SpecAuth == InitAuthSpec /\ [][ResolveAuthEnv]_vars

\* The title generator.
NextTitle == GenerateSessionTitle \/ RegenerateSessionTitle

SpecTitle == Init /\ [][NextTitle]_vars

Next == NextHooks \/ setInitialSessionMetadata \/ updateSessionMetadata
            \/ ResolveAuthEnv \/ NextTitle

Spec == Init /\ [][Next]_vars

(***************************************************************************)
(* Properties of the configuration load (SpecHooks).                       *)
(***************************************************************************)
\* a HookSystem is up on a hooks.json that passed validation
ValidatedLoad == systemUp /\ hooksFile # <<>> /\ issues = <<>>

RawHooks == hooksFile[1].hooks

RawKeys == {RawHooks[i].event : i \in DOMAIN RawHooks}

LegacyEvent  == "TodoStateChange"
CurrentEvent == "StatusStateChange"

\* the number of times m occurs in the list ms
Occurrences(ms, m) == Cardinality({i \in DOMAIN ms : ms[i] = m})

Mentions(warning, name) == name \in Range(warning)

IsDeprecationWarning(warning) == "\" is deprecated, use \"" \in Range(warning)

\* C1: when TodoStateChange is the only top-level key of a validated
\* hooks.json, getMatchersForEvent('StatusStateChange') is its matcher list,
\* element for element, and getMatchersForEvent('TodoStateChange') is empty.
C1_LegacyOnlyRemapped ==
    (ValidatedLoad /\ RawKeys = {LegacyEvent}) =>
        /\ getMatchersForEvent(CurrentEvent) = RawHooks[1].matchers
        /\ getMatchersForEvent(LegacyEvent) = <<>>

C1_Witness ==
    /\ ValidatedLoad
    /\ RawKeys = {LegacyEvent}
    /\ RawHooks[1].matchers = <<mProgress, mDone>>
    /\ getMatchersForEvent(CurrentEvent) = <<mProgress, mDone>>

\* C2: when a validated hooks.json has both TodoStateChange (list A) and
\* StatusStateChange (list B), in either order, the list for StatusStateChange
\* has length |A| + |B| and holds every matcher of A and of B, each as often
\* as A and B together hold it.
C2_BothNamesMerged ==
    (ValidatedLoad /\ {LegacyEvent, CurrentEvent} \subseteq RawKeys) =>
        LET A == MatchersOf(RawHooks, LegacyEvent)
            B == MatchersOf(RawHooks, CurrentEvent)
            R == getMatchersForEvent(CurrentEvent)
        IN  /\ Len(R) = Len(A) + Len(B)
            /\ Range(A) \cup Range(B) \subseteq Range(R)
            /\ \A m \in WellFormedMatchers :
                   Occurrences(R, m) = Occurrences(A, m) + Occurrences(B, m)

C2_Witness ==
    /\ ValidatedLoad
    /\ Len(RawHooks) = 2
    /\ RawHooks[1] = [event |-> CurrentEvent, matchers |-> <<mProgress>>]
    /\ RawHooks[2] = [event |-> LegacyEvent, matchers |-> <<mDone, mDone>>]
    /\ Len(getMatchersForEvent(CurrentEvent)) = 3

\* C3: every validated load of a hooks.json with the key TodoStateChange warns
\* at least once in a text naming both TodoStateChange and StatusStateChange,
\* and a load of a hooks.json without a deprecated key emits no deprecation
\* warning.
C3_DeprecationWarning ==
    ValidatedLoad =>
        /\ LegacyEvent \in RawKeys =>
               \E i \in DOMAIN warnings :
                   Mentions(warnings[i], LegacyEvent) /\ Mentions(warnings[i], CurrentEvent)
        /\ RawKeys \cap DOMAIN DEPRECATED_EVENTS = {} =>
               \A i \in DOMAIN warnings : ~IsDeprecationWarning(warnings[i])

\* C8: every key of the hooks mapping a validated load produces is a valid
\* event; a key that is neither valid nor deprecated leaves nothing in the
\* output, and its matchers are in no list of the output.
C8_OnlyValidEventKeys ==
    ValidatedLoad =>
        /\ \A i \in DOMAIN hooksConfig.hooks : hooksConfig.hooks[i].event \in VALID_EVENTS
        /\ Len(hooksConfig.hooks) =
               Cardinality({ IF k \in DOMAIN DEPRECATED_EVENTS THEN DEPRECATED_EVENTS[k] ELSE k :
                             k \in {k \in RawKeys : k \in VALID_EVENTS \cup DOMAIN DEPRECATED_EVENTS} })

\* the matchers of the raw keys that resolve to event, in declaration order
ExpectedMatchers(event) ==
    Flatten([i \in DOMAIN RawHooks |->
        IF \/ RawHooks[i].event = event
           \/ /\ RawHooks[i].event \in DOMAIN DEPRECATED_EVENTS
              /\ DEPRECATED_EVENTS[RawHooks[i].event] = event
        THEN RawHooks[i].matchers ELSE <<>>])

\* C10: after a validated load the matcher list of every valid event E is the
\* concatenation, in the order the top-level keys are declared, of the lists of
\* the keys that resolve to E (E itself and the deprecated key mapped to E),
\* each list in its own order: nothing lost, nothing duplicated.
C10_ConcatenationInKeyOrder ==
    ValidatedLoad =>
        \A event \in VALID_EVENTS :
            MatchersOf(hooksConfig.hooks, event) = ExpectedMatchers(event)

C10_Witness ==
    /\ ValidatedLoad
    /\ Len(RawHooks) = 2
    /\ RawHooks[1] = [event |-> CurrentEvent, matchers |-> <<mDone, mProgress>>]
    /\ RawHooks[2] = [event |-> LegacyEvent, matchers |-> <<mProgress, mDone>>]
    /\ MatchersOf(hooksConfig.hooks, CurrentEvent) = <<mDone, mProgress, mProgress, mDone>>

(***************************************************************************)
(* Properties of the session metadata store (SpecSessions).                *)
(***************************************************************************)
\* the last operation was an updateSessionMetadata on a registered session
UpdatedRegistered ==
    lastCall.op = "update" /\ ~lastCall.failed /\ lastCall.before # <<>>

StatusField == "todoState"

EmissionsOf(event) == {i \in DOMAIN emitted : emitted[i].event = event}

\* the mapped fields the last update changed
ChangedMappedFields ==
    {f \in DOMAIN lastCall.arg[1] \cap DOMAIN FieldEvent :
        lastCall.arg[1][f] # lastCall.before[1][f]}

\* the stored value, just before an update, of the field an emission reports
StoredBefore(e) ==
    LET f == CHOOSE f \in DOMAIN FieldEvent : FieldEvent[f] = e.event
    IN  sessions[e.sessionId][1][f]

\* C4, the state of the bus after one update: a status change from a to b /= a
\* on a registered session puts exactly one StatusStateChange on the bus, with
\* oldState a and newState b, and in the returned list; the legacy name is
\* neither emitted nor returned; nothing but the events of the changed mapped
\* fields is emitted.
C4_StatusChangeEmitted ==
    (UpdatedRegistered /\ StatusField \in DOMAIN lastCall.arg[1]
        /\ lastCall.arg[1][StatusField] # lastCall.before[1][StatusField]) =>
        /\ Cardinality(EmissionsOf(CurrentEvent)) = 1
        /\ \A i \in EmissionsOf(CurrentEvent) :
               /\ emitted[i].oldState = lastCall.before[1][StatusField]
               /\ emitted[i].newState = lastCall.arg[1][StatusField]
               /\ emitted[i].sessionId = lastCall.sessionId
        /\ CurrentEvent \in Range(lastCall.returned)
        /\ LegacyEvent \notin Range(lastCall.returned)
        /\ EmissionsOf(LegacyEvent) = {}
        /\ {emitted[i].event : i \in DOMAIN emitted}
               = {FieldEvent[f] : f \in ChangedMappedFields}
        /\ Len(emitted) = Cardinality(ChangedMappedFields)

\* C4, over any sequence of operations: whenever a step puts events on the
\* bus, the oldState of each is the value the store held just before the step.
C4_OldStateIsStoredValue ==
    (emitted' # <<>> /\ <<sessions, emitted, lastCall>>' # <<sessions, emitted, lastCall>>) =>
        \A i \in DOMAIN emitted' :
            /\ sessions[emitted'[i].sessionId] # <<>>
            /\ emitted'[i].oldState = StoredBefore(emitted'[i])

\* C4: updateSessionMetadata that changes the status of a registered session
\* from a to b emits exactly StatusStateChange {oldState: a, newState: b},
\* returns it, never emits or returns TodoStateChange, and in every sequence of
\* updates each emission's oldState is the value stored just before the update.
C4_StatusStateChange ==
    [](C4_StatusChangeEmitted) /\ [][C4_OldStateIsStoredValue]_vars

\* a later update of a session: the stored status todo goes back to backlog
C4_Witness ==
    /\ UpdatedRegistered
    /\ lastCall.sessionId = "s1"
    /\ lastCall.before[1][StatusField] = "todo"
    /\ lastCall.arg[1] = [f \in {StatusField} |-> "backlog"]
    /\ emitted = <<Emission(CurrentEvent, "s1", "todo", "backlog")>>
    /\ lastCall.returned = <<CurrentEvent>>

\* C5: an update of a registered session that sets fields to the values they
\* already have emits nothing, returns the empty list and leaves the stored
\* metadata as it was (and a field set to its own value never fires its event,
\* whatever else the update changes); setInitialSessionMetadata emits nothing.
C5_NoChangeNoEvent ==
    /\ UpdatedRegistered =>
         /\ \A f \in DOMAIN lastCall.arg[1] :
                lastCall.arg[1][f] = lastCall.before[1][f] =>
                    /\ f \in DOMAIN FieldEvent => EmissionsOf(FieldEvent[f]) = {}
                    /\ sessions[lastCall.sessionId][1][f] = lastCall.before[1][f]
         /\ (\A f \in DOMAIN lastCall.arg[1] : lastCall.arg[1][f] = lastCall.before[1][f]) =>
                /\ emitted = <<>>
                /\ lastCall.returned = <<>>
                /\ sessions[lastCall.sessionId] = lastCall.before
    /\ lastCall.op = "setInitial" => emitted = <<>>

C5_Witness ==
    /\ UpdatedRegistered
    /\ lastCall.before[1][StatusField] = "backlog"
    /\ lastCall.arg[1] = [f \in {StatusField} |-> "backlog"]
    /\ emitted = <<>>
    /\ lastCall.returned = <<>>

(***************************************************************************)
(* Properties of resolveAuthEnv (SpecAuth).  A value is present when it is *)
(* a non-empty string, absent when it is null or the empty string.         *)
(***************************************************************************)
Present(v) == v # null /\ v # ""

\* C6: the five rules, the first that matches deciding alone.
C6_FiveRuleOrder ==
    authPc = "returned" =>
        LET type   == authInput.billing.type
            apiKey == authInput.billing.apiKey
            token  == authInput.billing.claudeOAuthToken
            url    == authInput.customBaseUrl
            rule1  == type = "bedrock"
            rule2  == ~rule1 /\ Present(url)
            rule3  == ~rule1 /\ ~rule2 /\ type = "oauth_token" /\ Present(token)
            rule4  == ~rule1 /\ ~rule2 /\ ~rule3 /\ Present(apiKey)
            rule5  == ~rule1 /\ ~rule2 /\ ~rule3 /\ ~rule4
        IN  /\ rule1 => /\ DOMAIN authResult.set = {}
                        /\ authResult.delete = <<>>
                        /\ authResult.error = undefined
            /\ rule2 => /\ DOMAIN authResult.set = {ANTHROPIC_BASE_URL, ANTHROPIC_API_KEY}
                        /\ authResult.set[ANTHROPIC_BASE_URL] = url
                        /\ authResult.set[ANTHROPIC_API_KEY] =
                               (IF Present(apiKey) THEN apiKey ELSE "not-needed")
                        /\ authResult.delete = <<CLAUDE_CODE_OAUTH_TOKEN>>
                        /\ authResult.error = undefined
            /\ rule3 => /\ DOMAIN authResult.set = {CLAUDE_CODE_OAUTH_TOKEN}
                        /\ authResult.set[CLAUDE_CODE_OAUTH_TOKEN] = token
                        /\ authResult.delete = <<ANTHROPIC_API_KEY, ANTHROPIC_BASE_URL>>
                        /\ authResult.error = undefined
            /\ rule4 => /\ DOMAIN authResult.set = {ANTHROPIC_API_KEY}
                        /\ authResult.set[ANTHROPIC_API_KEY] = apiKey
                        /\ authResult.delete = <<CLAUDE_CODE_OAUTH_TOKEN, ANTHROPIC_BASE_URL>>
                        /\ authResult.error = undefined
            /\ rule5 => /\ DOMAIN authResult.set = {}
                        /\ authResult.delete = <<>>
                        /\ authResult.error = "No authentication configured"

\* rule 2 wins over rule 3: OAuth billing with a token and a custom base URL
C6_Witness ==
    /\ authPc = "returned"
    /\ authInput.billing.type = "oauth_token"
    /\ Present(authInput.billing.claudeOAuthToken)
    /\ Present(authInput.customBaseUrl)
    /\ ~Present(authInput.billing.apiKey)
    /\ authResult.set[ANTHROPIC_API_KEY] = "not-needed"
    /\ authResult.delete = <<CLAUDE_CODE_OAUTH_TOKEN>>

\* C7: no environment variable is both set and deleted by one result.
C7_SetDeleteDisjoint ==
    authPc = "returned" => DOMAIN authResult.set \cap Range(authResult.delete) = {}

C7_Witness ==
    /\ authPc = "returned"
    /\ DOMAIN authResult.set = {ANTHROPIC_BASE_URL, ANTHROPIC_API_KEY}
    /\ authResult.delete # <<>>

(***************************************************************************)
(* Properties of the title generator (SpecTitle).                          *)
(***************************************************************************)
\* the text the invoked collaborator generated: <<text>>, or <<>> when it
\* failed, was not invoked, or answered without content
GeneratedText ==
    IF titleEffects.sdkCalled
    THEN IF titleCall.sdk[1].throws THEN <<>> ELSE <<CollectText(titleCall.sdk[1].messages)>>
    ELSE IF titleEffects.fetchCalled /\ titleCall.http[1].kind = "ok"
    THEN titleCall.http[1].content
    ELSE <<>>

AllSpace(t) == \A i \in DOMAIN t : IsSpace(t[i].ch)

\* t without its leading and trailing white space: the one stretch of t that
\* has only white space before and after it and none at either end
TrimmedForms(t) ==
    { SubSeq(t, i, j) : <<i, j>> \in
        { ij \in (1..(Len(t) + 1)) \X (0..Len(t)) :
            /\ ij[2] >= ij[1] - 1
            /\ AllSpace(SubSeq(t, 1, ij[1] - 1))
            /\ AllSpace(SubSeq(t, ij[2] + 1, Len(t)))
            /\ ij[2] >= ij[1] => ~IsSpace(t[ij[1]].ch) /\ ~IsSpace(t[ij[2]].ch) } }

\* C9: a title call settles, without rejecting, to the generated text trimmed
\* of surrounding white space when that trimmed text has 1 to 99 characters,
\* and to null in every other case: an empty or over-long text, a non-OK HTTP
\* response, OpenAI credentials without a key or token, a collaborator that
\* throws.
C9_TitleTrimmedOrNull ==
    titlePc = "returned" =>
        /\ ~titleEffects.rejected
        /\ IF /\ GeneratedText # <<>>
              /\ \E r \in TrimmedForms(GeneratedText[1]) : StrLen(r) \in 1..99
           THEN /\ titleResult # <<>>
                /\ titleResult[1] \in TrimmedForms(GeneratedText[1])
           ELSE titleResult = <<>>

\* 99 characters between white space, over the OpenAI route
C9_Witness ==
    /\ titlePc = "returned"
    /\ titleEffects.fetchCalled
    /\ titleCall.http[1].content =
           <<<<Run(" ", 2), Run("x", 50), Run(" ", 1), Run("x", 48), Run("\n", 1)>>>>
    /\ titleResult = <<<<Run("x", 50), Run(" ", 1), Run("x", 48)>>>>

(***************************************************************************)
(* Fail-closed validation (SpecHooks).                                     *)
(***************************************************************************)
\* a hook definition the schema rejects: a type that is neither command nor
\* prompt, a command hook without a non-empty command or with a timeout that
\* is not strictly positive, a prompt hook without a non-empty prompt
DefectiveHook(h) ==
    \/ h.type \notin {"command", "prompt"}
    \/ h.type = "command" /\ h.command \in {undefined, ""}
    \/ h.type = "command" /\ h.timeout # <<>> /\ h.timeout[1] <= 0
    \/ h.type = "prompt" /\ h.prompt \in {undefined, ""}

DefectiveMatcher(m) ==
    Len(m.hooks) = 0 \/ \E i \in DOMAIN m.hooks : DefectiveHook(m.hooks[i])

\* the positions <<key, index>> (index counted from 0) of the defective matchers
DefectivePositions ==
    { <<RawHooks[e].event, ToString(j - 1)>> :
        <<e, j>> \in { ej \in (DOMAIN RawHooks) \X (1..(MaxMatchers + 2)) :
                         /\ ej[2] \in DOMAIN RawHooks[ej[1]].matchers
                         /\ DefectiveMatcher(RawHooks[ej[1]].matchers[ej[2]]) } }

\* C11: when any matcher under any top-level key (valid, deprecated or
\* unknown) of the loaded hooks.json is defective, the load reports validation
\* issues, every one an error of hooks.json located at a defective matcher and
\* every defective matcher with one, keeps no configuration at all (no hooks
\* of the well-formed keys either) and emits no warning, the remap not having
\* run.
C11_FailClosed ==
    (systemUp /\ hooksFile # <<>> /\ DefectivePositions # {}) =>
        /\ issues # <<>>
        /\ \A i \in DOMAIN issues :
               /\ issues[i].severity = "error"
               /\ issues[i].file = "hooks.json"
               /\ Len(issues[i].path) >= 3
               /\ issues[i].path[1] = "hooks"
               /\ <<issues[i].path[2], issues[i].path[3]>> \in DefectivePositions
        /\ \A pos \in DefectivePositions :
               \E i \in DOMAIN issues : <<issues[i].path[2], issues[i].path[3]>> = pos
        /\ hooksConfig = EmptyConfiguration
        /\ \A event \in VALID_EVENTS \cup RawKeys : getMatchersForEvent(event) = <<>>
        /\ warnings = <<>>

\* a well-formed legacy key next to an unknown key whose second matcher has a
\* zero timeout: nothing of the legacy key is kept, nothing is warned about
C11_Witness ==
    /\ systemUp
    /\ hooksFile # <<>>
    /\ Len(RawHooks) = 2
    /\ RawHooks[1] = [event |-> LegacyEvent, matchers |-> <<mDone>>]
    /\ RawHooks[2] = [event |-> "Bogus",
                      matchers |-> <<mDone, Matcher("done", undefined,
                                              <<CommandHook("echo done", <<0>>)>>)>>]
    /\ issues # <<>>
    /\ hooksConfig = EmptyConfiguration
    /\ warnings = <<>>

(***************************************************************************)
(* The provider route of the title generator (SpecTitle).                  *)
(***************************************************************************)
\* C12: a call of generateSessionTitle or regenerateSessionTitle whose
\* options.provider is 'openai', with or without a credentials object, never
\* invokes the Claude SDK query.
C12_OpenAINeverQueriesClaude ==
    (titlePc = "returned" /\ titleCall.options.provider = "openai") =>
        ~titleEffects.sdkCalled

(***************************************************************************)
(* The shape of every resolveAuthEnv result (SpecAuth).                    *)
(***************************************************************************)
\* C13: in a result that sets a variable, each of the three variables is
\* either set or deleted and none is both or deleted twice; the OAuth token
\* and the API key are never both set; every set value is a non-empty string;
\* and the error is there exactly when billing is not bedrock and nothing is
\* set.
C13_ResultShape ==
    authPc = "returned" =>
        LET setKeys == DOMAIN authResult.set
            deleted == Range(authResult.delete)
        IN  /\ setKeys # {} =>
                   /\ setKeys \cup deleted = EnvVars
                   /\ setKeys \cap deleted = {}
                   /\ Len(authResult.delete) = Cardinality(deleted)
            /\ setKeys \subseteq EnvVars
            /\ ~({CLAUDE_CODE_OAUTH_TOKEN, ANTHROPIC_API_KEY} \subseteq setKeys)
            /\ \A k \in setKeys : authResult.set[k] \notin {"", null, undefined}
            /\ authResult.error # undefined
                   <=> (authInput.billing.type # "bedrock" /\ setKeys = {})

\* a custom endpoint with an empty API key: the placeholder is set, no error
C13_Witness ==
    /\ authPc = "returned"
    /\ authInput.billing.type = "api_key"
    /\ authInput.billing.apiKey = ""
    /\ Present(authInput.customBaseUrl)
    /\ authResult.set[ANTHROPIC_API_KEY] = "not-needed"
    /\ authResult.set[ANTHROPIC_BASE_URL] = authInput.customBaseUrl
    /\ authResult.delete = <<CLAUDE_CODE_OAUTH_TOKEN>>
    /\ authResult.error = undefined

====
